---- MODULE Spec2Model ----
(***************************************************************************)
(* A model of the FileTag store (lib/index.js, kept as                     *)
(* src/unnamed/part_001 lines 201-388): a JSON file that maps absolute     *)
(* file paths to tag records, loaded lazily by each FileTag instance and   *)
(* written back by every mutating call.                                    *)
(*                                                                         *)
(* Spec      : every public method runs to completion before the next one  *)
(*             starts (each call is awaited); instance A is used, and a    *)
(*             second instance B on the same backing file reads it.        *)
(* StepSpec  : the calls advance from one await to the next, so calls of   *)
(*             one instance or of two instances interleave, a write of the *)
(*             backing file is seen half done, and a process may crash.    *)
(* FailSpec  : StepSpec with writes of the backing file that fail.         *)
(* CallerSpec: Spec with a caller that edits what listAll() returned.      *)
(* TurnSpec  : Spec with two instances that both change the store.         *)
(* CliSpec   : runs of the command line program bin/filetag.js.            *)
(***************************************************************************)
EXTENDS Integers, Sequences, FiniteSets, TLC

VARIABLES db, disk, now, nops, last, calls

vars == <<db, disk, now, nops, last, calls>>

(***************************************************************************)
(* Bounds of the model.                                                    *)
(***************************************************************************)
\* number of method calls in one behaviour
MaxOps == 2
\* largest reading of the clock
MaxTime == 1
\* number of calls started in one behaviour of StepSpec
MaxCalls == 2
\* number of method calls in one behaviour of TurnSpec
MaxTurns == 3

(***************************************************************************)
(* Inputs.  A tag is a string, modelled as the sequence of its characters; *)
(* a path is the sequence of its segments, an absolute one starting "/".   *)
(***************************************************************************)
Insts == {"A", "B"}

\* the instance that Spec gives every call
Users == {"A"}

\* the tags "w", " W" and "d"
TagW == <<"w">>

TagSpacedW == <<" ", "W">>

TagD == <<"d">>

\* the tag lists passed to the calls: empty, one tag, a respelling of it, and a
\* list that names a tag twice
TagLists == { <<>>, <<TagW>>, <<TagSpacedW>>, <<TagD, TagW, TagD>> }

Cwd == <<"/", "r">>

PathA == <<"/", "r", "a">>

PathB == <<"/", "r", "b">>

\* the paths passed to the calls: "a", relative to the working directory, "/r/a",
\* which names the same file, and "/r/b"
PathArgs == { <<"a">>, PathA, PathB }

\* path.resolve(filePath): a relative path is taken against the working directory
Resolve(p) == IF p # <<>> /\ p[1] = "/" THEN p ELSE Cwd \o p

(***************************************************************************)
(* The store: this.db is null or an object whose keys keep their insertion *)
(* order; it is modelled as the sequence of its entries in key order.      *)
(***************************************************************************)
Rec(p, tags, c, m) == [path |-> p, tags |-> tags, created |-> c, modified |-> m]

NullDb == [loaded |-> FALSE, recs |-> <<>>]

Range(s) == { s[k] : k \in 1..Len(s) }

Keys(recs) == [k \in 1..Len(recs) |-> recs[k].path]

HasKey(recs, p) == \E k \in 1..Len(recs) : recs[k].path = p

IndexOf(recs, p) == CHOOSE k \in 1..Len(recs) : recs[k].path = p

\* this.db[p]?.tags || []
TagsAt(recs, p) == IF HasKey(recs, p) THEN recs[IndexOf(recs, p)].tags ELSE <<>>

\* this.db[p] = r : an existing key keeps its place, a new key goes last
PutKey(recs, r) ==
  IF HasKey(recs, r.path)
  THEN [recs EXCEPT ![IndexOf(recs, r.path)] = r]
  ELSE Append(recs, r)

\* delete this.db[p]
DeleteKey(recs, p) == SelectSeq(recs, LAMBDA r : r.path # p)

(***************************************************************************)
(* The backing file.  Its text is a sequence of tokens: "{", one token per *)
(* entry, "}".  Anything else does not parse.                              *)
(***************************************************************************)
Tok(kind, r) == [tok |-> kind, path |-> r.path, tags |-> r.tags,
                 created |-> r.created, modified |-> r.modified]

NoRec == Rec(<<>>, <<>>, 0, 0)

LBrace == Tok("{", NoRec)

RBrace == Tok("}", NoRec)

Junk == Tok("junk", NoRec)

RecOf(t) == Rec(t.path, t.tags, t.created, t.modified)

\* JSON.stringify(this.db, null, 2)
Serialize(recs) ==
  <<LBrace>> \o [k \in 1..Len(recs) |-> Tok("entry", recs[k])] \o <<RBrace>>

\* does JSON.parse accept the text
Valid(text) ==
  /\ Len(text) >= 2
  /\ text[1] = LBrace
  /\ text[Len(text)] = RBrace
  /\ \A k \in 2..(Len(text) - 1) : text[k].tok = "entry"

\* JSON.parse(data): a key met again keeps its first place and takes the last value
RECURSIVE ParseFrom(_, _, _)
ParseFrom(text, k, acc) ==
  IF k > Len(text) - 1 THEN acc
  ELSE ParseFrom(text, k + 1, PutKey(acc, RecOf(text[k])))

Parse(text) == ParseFrom(text, 2, <<>>)

Absent == [exists |-> FALSE, text |-> <<>>]

File(text) == [exists |-> TRUE, text |-> text]

\* save(), awaited: fs.writeFile has replaced the whole content
Save(recs) == File(Serialize(recs))

\* a bug: a store that starts empty is not written
InitOf_NoPersist(d) ==
  IF d.exists /\ Valid(d.text)
  THEN [recs |-> Parse(d.text), disk |-> d]
  ELSE [recs |-> <<>>, disk |-> d]

\* init(), awaited: the store and the backing file it leaves
InitOf(d) ==
  IF d.exists /\ Valid(d.text)
  THEN [recs |-> Parse(d.text), disk |-> d]
  ELSE [recs |-> <<>>, disk |-> Save(<<>>)]

\* if (!this.db) await this.init()
EnsureLoaded(i) ==
  IF db[i].loaded THEN [recs |-> db[i].recs, disk |-> disk] ELSE InitOf(disk)

(***************************************************************************)
(* The public methods, each as the store it leaves, whether it saves, how  *)
(* it ends and what it returns.                                            *)
(***************************************************************************)
Outcome(recs, save, outcome, ret) ==
  [recs |-> recs, save |-> save, outcome |-> outcome, ret |-> ret]

\* a bug: the tags are pushed on an array, present or not
AddAll_NoDedup(acc, tags) == acc \o tags

\* existingTags.add(tag) for every tag of the list, in order
RECURSIVE AddAll(_, _)
AddAll(acc, tags) ==
  IF tags = <<>> THEN acc
  ELSE AddAll(IF Head(tags) \in Range(acc) THEN acc ELSE Append(acc, Head(tags)),
              Tail(tags))

\* Array.from(new Set(existing) with every tag of tags added)
UnionTags(existing, tags) == AddAll(AddAll(<<>>, existing), tags)

\* a bug: the method does not look whether the file exists
AddTagsOp_NoExistenceCheck(recs, f, tags, exists, t1, t2) ==
  LET abs  == Resolve(f)
      base == IF HasKey(recs, abs) THEN recs ELSE PutKey(recs, Rec(abs, <<>>, t1, t1))
      old  == base[IndexOf(base, abs)]
      new  == [old EXCEPT !.tags = UnionTags(old.tags, tags), !.modified = t2]
  IN  Outcome(PutKey(base, new), TRUE, "ok", new.tags)

\* a bug: every add stamps created as well
AddTagsOp_RestampsCreated(recs, f, tags, exists, t1, t2) ==
  LET abs  == Resolve(f)
      base == IF HasKey(recs, abs) THEN recs ELSE PutKey(recs, Rec(abs, <<>>, t1, t1))
      old  == base[IndexOf(base, abs)]
      new  == [old EXCEPT !.tags = UnionTags(old.tags, tags), !.modified = t2,
                          !.created = t2]
  IN  IF ~exists
      THEN Outcome(recs, FALSE, "FileNotFound", <<>>)
      ELSE Outcome(PutKey(base, new), TRUE, "ok", new.tags)

\* addTags(filePath, tags) once the store is loaded; exists is what fs.access
\* finds, t1 and t2 the clock when the record is created and when it is stamped
AddTagsOp(recs, f, tags, exists, t1, t2) ==
  LET abs  == Resolve(f)
      base == IF HasKey(recs, abs) THEN recs ELSE PutKey(recs, Rec(abs, <<>>, t1, t1))
      old  == base[IndexOf(base, abs)]
      new  == [old EXCEPT !.tags = UnionTags(old.tags, tags), !.modified = t2]
  IN  IF ~exists
      THEN Outcome(recs, FALSE, "FileNotFound", <<>>)
      ELSE Outcome(PutKey(base, new), TRUE, "ok", new.tags)

\* a bug: only the first tag of the list is filtered out
FilterOut_FirstOnly(existing, tags) ==
  SelectSeq(existing, LAMBDA t : tags = <<>> \/ t # Head(tags))

\* this.db[p].tags.filter(tag => !tagSet.has(tag))
FilterOut(existing, tags) == SelectSeq(existing, LAMBDA t : t \notin Range(tags))

\* a bug: a record that loses its last tag is deleted
RemoveTagsOp_DropsEmpty(recs, f, tags, t) ==
  LET abs == Resolve(f)
      old == recs[IndexOf(recs, abs)]
      new == [old EXCEPT !.tags = FilterOut(old.tags, tags), !.modified = t]
  IN  IF ~HasKey(recs, abs)
      THEN Outcome(recs, FALSE, "ok", <<>>)
      ELSE IF new.tags = <<>>
      THEN Outcome(DeleteKey(recs, abs), TRUE, "ok", <<>>)
      ELSE Outcome(PutKey(recs, new), TRUE, "ok", new.tags)

\* a bug: an untracked path is given a record before the tags are filtered
RemoveTagsOp_CreatesRecord(recs, f, tags, t) ==
  LET abs  == Resolve(f)
      base == IF HasKey(recs, abs) THEN recs ELSE PutKey(recs, Rec(abs, <<>>, t, t))
      old  == base[IndexOf(base, abs)]
      new  == [old EXCEPT !.tags = FilterOut(old.tags, tags), !.modified = t]
  IN  Outcome(PutKey(base, new), TRUE, "ok", new.tags)

\* removeTags(filePath, tags) once the store is loaded
RemoveTagsOp(recs, f, tags, t) ==
  LET abs == Resolve(f)
      old == recs[IndexOf(recs, abs)]
      new == [old EXCEPT !.tags = FilterOut(old.tags, tags), !.modified = t]
  IN  IF ~HasKey(recs, abs)
      THEN Outcome(recs, FALSE, "ok", <<>>)
      ELSE Outcome(PutKey(recs, new), TRUE, "ok", new.tags)

\* a bug: the method does not save
ClearTagsOp_NoSave(recs, f) == Outcome(DeleteKey(recs, Resolve(f)), FALSE, "ok", <<>>)

\* a bug: the record is emptied and kept
ClearTagsOp_EmptiesRecord(recs, f) ==
  LET abs == Resolve(f)
      old == recs[IndexOf(recs, abs)]
  IN  IF HasKey(recs, abs)
      THEN Outcome(PutKey(recs, [old EXCEPT !.tags = <<>>]), TRUE, "ok", <<>>)
      ELSE Outcome(recs, TRUE, "ok", <<>>)

\* clearTags(filePath) once the store is loaded
ClearTagsOp(recs, f) == Outcome(DeleteKey(recs, Resolve(f)), TRUE, "ok", <<>>)

\* a bug: a path that is asked for is given a record
GetTagsOp_CreatesRecord(recs, f) ==
  LET abs  == Resolve(f)
      base == IF HasKey(recs, abs) THEN recs ELSE PutKey(recs, Rec(abs, <<>>, 0, 0))
  IN  Outcome(base, FALSE, "ok", TagsAt(recs, abs))

\* getTags(filePath) once the store is loaded
GetTagsOp(recs, f) == Outcome(recs, FALSE, "ok", TagsAt(recs, Resolve(f)))

\* a bug: an empty list matches nothing
Every_NeedsOne(tags, fileTags) ==
  tags # <<>> /\ \A k \in 1..Len(tags) : tags[k] \in fileTags

\* tags.every(tag => fileTags.has(tag))
RECURSIVE Every(_, _)
Every(tags, fileTags) ==
  IF tags = <<>> THEN TRUE
  ELSE IF Head(tags) \in fileTags THEN Every(Tail(tags), fileTags) ELSE FALSE

\* tags.some(tag => fileTags.has(tag))
RECURSIVE Some(_, _)
Some(tags, fileTags) ==
  IF tags = <<>> THEN FALSE
  ELSE IF Head(tags) \in fileTags THEN TRUE ELSE Some(Tail(tags), fileTags)

\* a bug: matchAll is ignored
Matches_AnyOnly(data, tags, matchAll) == Some(tags, Range(data.tags))

\* the test of one entry in the loop of findByTags
Matches(data, tags, matchAll) ==
  LET fileTags == Range(data.tags)
  IN  IF matchAll THEN Every(tags, fileTags) ELSE Some(tags, fileTags)

\* the loop of findByTags over Object.entries(this.db), from entry k on
RECURSIVE FindLoop(_, _, _, _, _)
FindLoop(recs, k, tags, matchAll, results) ==
  IF k > Len(recs) THEN results
  ELSE FindLoop(recs, k + 1, tags, matchAll,
                IF Matches(recs[k], tags, matchAll)
                THEN Append(results, recs[k].path) ELSE results)

\* findByTags(tags, matchAll) once the store is loaded
FindByTagsOp(recs, tags, matchAll) ==
  Outcome(recs, FALSE, "ok", FindLoop(recs, 1, tags, matchAll, <<>>))

\* the UTF-16 code unit of a character
Code(c) == CASE c = " " -> 32 [] c = "W" -> 87 [] c = "d" -> 100 [] c = "w" -> 119

\* the default comparison of Array.prototype.sort: by code units, a prefix first
RECURSIVE StrLess(_, _)
StrLess(a, b) ==
  IF b = <<>> THEN FALSE
  ELSE IF a = <<>> THEN TRUE
  ELSE IF Code(Head(a)) # Code(Head(b)) THEN Code(Head(a)) < Code(Head(b))
  ELSE StrLess(Tail(a), Tail(b))

\* one element put at its place in a sorted list
RECURSIVE InsertSorted(_, _)
InsertSorted(sorted, x) ==
  IF sorted = <<>> THEN <<x>>
  ELSE IF StrLess(x, Head(sorted)) THEN <<x>> \o sorted
  ELSE <<Head(sorted)>> \o InsertSorted(Tail(sorted), x)

\* a bug: the tags are returned in the order they were collected
SortTags_Unsorted(tags) == tags

\* Array.prototype.sort() on a list of strings
RECURSIVE SortTags(_)
SortTags(tags) ==
  IF tags = <<>> THEN <<>> ELSE InsertSorted(SortTags(Tail(tags)), Head(tags))

\* the loop of listAllTags over Object.values(this.db), from entry k on
RECURSIVE CollectTags(_, _, _)
CollectTags(recs, k, allTags) ==
  IF k > Len(recs) THEN allTags
  ELSE CollectTags(recs, k + 1, AddAll(allTags, recs[k].tags))

\* listAllTags() once the store is loaded
ListAllTagsOp(recs) ==
  Outcome(recs, FALSE, "ok", SortTags(CollectTags(recs, 1, <<>>)))

\* listAll() once the store is loaded: { ...this.db }
ListAllOp(recs) == Outcome(recs, FALSE, "ok", [k \in 1..Len(recs) |-> recs[k]])

(***************************************************************************)
(* Spec: calls that are awaited one after the other.                       *)
(***************************************************************************)
\* what the load guard of a call of instance i does: nothing, or init(), which
\* parses the backing file, finds none, or finds one that does not parse
LoadOf(i) ==
  IF db[i].loaded THEN "none"
  ELSE IF ~disk.exists THEN "absent"
  ELSE IF Valid(disk.text) THEN "parsed" ELSE "unparsable"

CallRec(op, i, f, tags, all, exists, o) ==
  [op |-> op, inst |-> i, path |-> f, tags |-> tags, all |-> all,
   exists |-> exists, outcome |-> o.outcome, ret |-> o.ret, saved |-> o.save,
   load |-> LoadOf(i)]

NoCall == [op |-> "none", inst |-> "none", path |-> <<>>, tags |-> <<>>,
           all |-> FALSE, exists |-> FALSE, outcome |-> "none", ret |-> <<>>,
           saved |-> FALSE, load |-> "none"]

\* instance i has run a method: o is the method's outcome on the loaded store
Finish(i, L, o, c) ==
  /\ db' = [db EXCEPT ![i] = [loaded |-> TRUE, recs |-> o.recs]]
  /\ disk' = IF o.save THEN Save(o.recs) ELSE L.disk
  /\ nops' = nops + 1
  /\ last' = c
  /\ UNCHANGED calls

\* a store that earlier runs left in the backing file: addTags("a", ["w", "d"]),
\* addTags("/r/b", ["d"]), removeTags("/r/b", ["d"])
SeedStore == << Rec(PathA, <<TagW, TagD>>, 0, 0), Rec(PathB, <<>>, 0, 0) >>

\* the backing file when the first instance is constructed: missing, not JSON,
\* cut short, or a store
InitDisks == { Absent, File(<<Junk>>), File(<<LBrace>>), Save(<<>>), Save(SeedStore) }

Init ==
  /\ db = [i \in Insts |-> NullDb]
  /\ disk \in InitDisks
  /\ now = 0
  /\ nops = 0
  /\ last = NoCall
  /\ calls = <<>>

Tick ==
  /\ now < MaxTime
  /\ now' = now + 1
  /\ UNCHANGED <<db, disk, nops, last, calls>>

AddTags(i, f, tags, exists, d) ==
  /\ nops < MaxOps
  /\ now + d <= MaxTime
  /\ exists \/ d = 0
  /\ LET L == EnsureLoaded(i)
         o == AddTagsOp(L.recs, f, tags, exists, now, now + d)
     IN  Finish(i, L, o, CallRec("addTags", i, f, tags, FALSE, exists, o))
  /\ now' = now + d

RemoveTags(i, f, tags) ==
  /\ nops < MaxOps
  /\ LET L == EnsureLoaded(i)
         o == RemoveTagsOp(L.recs, f, tags, now)
     IN  Finish(i, L, o, CallRec("removeTags", i, f, tags, FALSE, FALSE, o))
  /\ UNCHANGED now

ClearTags(i, f) ==
  /\ nops < MaxOps
  /\ LET L == EnsureLoaded(i)
         o == ClearTagsOp(L.recs, f)
     IN  Finish(i, L, o, CallRec("clearTags", i, f, <<>>, FALSE, FALSE, o))
  /\ UNCHANGED now

GetTags(i, f) ==
  /\ nops < MaxOps
  /\ LET L == EnsureLoaded(i)
         o == GetTagsOp(L.recs, f)
     IN  Finish(i, L, o, CallRec("getTags", i, f, <<>>, FALSE, FALSE, o))
  /\ UNCHANGED now

FindByTags(i, tags, matchAll) ==
  /\ nops < MaxOps
  /\ LET L == EnsureLoaded(i)
         o == FindByTagsOp(L.recs, tags, matchAll)
     IN  Finish(i, L, o, CallRec("findByTags", i, <<>>, tags, matchAll, FALSE, o))
  /\ UNCHANGED now

ListAllTags(i) ==
  /\ nops < MaxOps
  /\ LET L == EnsureLoaded(i)
         o == ListAllTagsOp(L.recs)
     IN  Finish(i, L, o, CallRec("listAllTags", i, <<>>, <<>>, FALSE, FALSE, o))
  /\ UNCHANGED now

ListAll(i) ==
  /\ nops < MaxOps
  /\ LET L == EnsureLoaded(i)
         o == ListAllOp(L.recs)
     IN  Finish(i, L, o, CallRec("listAll", i, <<>>, <<>>, FALSE, FALSE, o))
  /\ UNCHANGED now

\* in Spec instance A is given every call, instance B reads what A has stored
Next ==
  \/ Tick
  \/ \E i \in Users, f \in PathArgs, tags \in TagLists, exists \in BOOLEAN, d \in {0, 1} :
       AddTags(i, f, tags, exists, d)
  \/ \E i \in Users, f \in PathArgs, tags \in TagLists : RemoveTags(i, f, tags)
  \/ \E i \in Users, f \in PathArgs : ClearTags(i, f)
  \/ \E i \in Insts, f \in PathArgs : GetTags(i, f)
  \/ \E i \in Users, tags \in TagLists, matchAll \in BOOLEAN : FindByTags(i, tags, matchAll)
  \/ \E i \in Users : ListAllTags(i)
  \/ \E i \in Insts : ListAll(i)

Spec == Init /\ [][Next]_vars

(***************************************************************************)
(* StepSpec: the same methods, one step per stretch of code between two    *)
(* awaits.  fs.writeFile opens the file with flag "w", which empties it,   *)
(* and then writes the text from offset 0.                                 *)
(***************************************************************************)
StepOps == { "addTags", "removeTags", "clearTags", "getTags" }

StepTagLists == { <<TagW>>, <<TagD, TagW, TagD>> }

StepPaths == { <<"a">>, PathB }

NewCall(i, op, f, tags) ==
  [inst |-> i, op |-> op, path |-> f, tags |-> tags, pc |-> "start",
   phase |-> "none", data |-> <<>>, before |-> Absent,
   outcome |-> "none", ret |-> <<>>]

\* the call has settled: what is left of it is how it ended and what it returned
Done(c, outcome, ret) ==
  [NewCall(c.inst, c.op, c.path, c.tags) EXCEPT
     !.pc = "done", !.outcome = outcome, !.ret = ret]

\* save() up to its await: the text is built now, the file is opened later
StartSave(c, recs, phase) ==
  [c EXCEPT !.pc = "open", !.phase = phase, !.data = Serialize(recs)]

\* the method of call c from the line after the load guard to its next await
Body(c, recs) ==
  LET o == CASE c.op = "removeTags" -> RemoveTagsOp(recs, c.path, c.tags, now)
             [] c.op = "clearTags"  -> ClearTagsOp(recs, c.path)
             [] OTHER               -> GetTagsOp(recs, c.path)
  IN  IF c.op = "addTags" THEN [call |-> [c EXCEPT !.pc = "access"], recs |-> recs]
      ELSE IF o.save THEN [call |-> StartSave(c, o.recs, "body"), recs |-> o.recs]
      ELSE [call |-> Done(c, o.outcome, o.ret), recs |-> recs]

\* the data of one write at offset off of a file (a gap is filled with zeros)
WriteAt(text, off, chunk) ==
  LET end == IF Len(text) > off + Len(chunk) THEN Len(text) ELSE off + Len(chunk)
  IN  [k \in 1..end |->
         IF k > off /\ k <= off + Len(chunk) THEN chunk[k - off]
         ELSE IF k <= Len(text) THEN text[k] ELSE Junk]

SetDb(i, recs) == db' = [db EXCEPT ![i] = [loaded |-> TRUE, recs |-> recs]]

\* a call is made: it runs to its first await
StartCall(i, op, f, tags) ==
  /\ Len(calls) < MaxCalls
  /\ LET c == NewCall(i, op, f, tags)
         b == Body(c, db[i].recs)
     IN  IF db[i].loaded
         THEN /\ calls' = Append(calls, b.call)
              /\ SetDb(i, b.recs)
         ELSE /\ calls' = Append(calls, [c EXCEPT !.pc = "read"])
              /\ UNCHANGED db
  /\ UNCHANGED <<disk, now, nops, last>>

\* init(): fs.readFile settles, the text is parsed or the store starts empty
Read(k) ==
  /\ calls[k].pc = "read"
  /\ LET c == calls[k]
         b == Body(c, Parse(disk.text))
     IN  IF disk.exists /\ Valid(disk.text)
         THEN /\ calls' = [calls EXCEPT ![k] = b.call]
              /\ SetDb(c.inst, b.recs)
         ELSE /\ calls' = [calls EXCEPT ![k] = StartSave(c, <<>>, "init")]
              /\ SetDb(c.inst, <<>>)
  /\ UNCHANGED <<disk, now, nops, last>>

\* addTags: fs.access settles, the record is changed and save() is called
Access(k, exists) ==
  /\ calls[k].pc = "access"
  /\ LET c == calls[k]
         o == AddTagsOp(db[c.inst].recs, c.path, c.tags, exists, now, now)
     IN  IF o.save
         THEN /\ calls' = [calls EXCEPT ![k] = StartSave(c, o.recs, "body")]
              /\ SetDb(c.inst, o.recs)
         ELSE /\ calls' = [calls EXCEPT ![k] = Done(c, o.outcome, o.ret)]
              /\ UNCHANGED db
  /\ UNCHANGED <<disk, now, nops, last>>

\* fs.writeFile opens the backing file: it exists and is empty
Open(k) ==
  /\ calls[k].pc = "open"
  /\ calls' = [calls EXCEPT ![k].pc = "write", ![k].before = disk]
  /\ disk' = File(<<>>)
  /\ UNCHANGED <<db, now, nops, last>>

\* fs.writeFile writes the text at offset 0 of the file it has opened
Write(k) ==
  /\ calls[k].pc = "write"
  /\ disk' = File(WriteAt(disk.text, 0, calls[k].data))
  /\ calls' = [calls EXCEPT ![k].pc = "written"]
  /\ UNCHANGED <<db, now, nops, last>>

\* save() settles: init() goes on with the method, the method returns
Resume(k) ==
  /\ calls[k].pc = "written"
  /\ LET c    == calls[k]
         recs == db[c.inst].recs
         abs  == Resolve(c.path)
         b    == Body(c, recs)
     IN  IF c.phase = "init"
         THEN /\ calls' = [calls EXCEPT ![k] = b.call]
              /\ SetDb(c.inst, b.recs)
         ELSE /\ calls' = [calls EXCEPT ![k] =
                   IF c.op = "clearTags" THEN Done(c, "ok", <<>>)
                   ELSE IF HasKey(recs, abs) THEN Done(c, "ok", TagsAt(recs, abs))
                   ELSE Done(c, "TypeError", <<>>)]
              /\ UNCHANGED db
  /\ UNCHANGED <<disk, now, nops, last>>

Pending(c) == c.pc # "done"

\* the process of instance i dies with calls under way; a new instance is made
Crash(i) ==
  /\ \E k \in 1..Len(calls) : calls[k].inst = i /\ Pending(calls[k])
  /\ calls' = [k \in 1..Len(calls) |->
                 IF calls[k].inst = i /\ Pending(calls[k])
                 THEN Done(calls[k], "crashed", <<>>) ELSE calls[k]]
  /\ db' = [db EXCEPT ![i] = NullDb]
  /\ UNCHANGED <<disk, now, nops, last>>

StepNext ==
  \/ \E i \in Insts, op \in StepOps, f \in StepPaths, tags \in StepTagLists \cup { <<>> } :
       /\ (tags = <<>>) = (op \in { "clearTags", "getTags" })
       /\ StartCall(i, op, f, tags)
  \/ \E k \in 1..Len(calls) : Read(k)
  \/ \E k \in 1..Len(calls), exists \in BOOLEAN : Access(k, exists)
  \/ \E k \in 1..Len(calls) : Open(k)
  \/ \E k \in 1..Len(calls) : Write(k)
  \/ \E k \in 1..Len(calls) : Resume(k)
  \/ \E i \in Insts : Crash(i)

StepSpec == Init /\ [][StepNext]_vars

(***************************************************************************)
(* FailSpec: StepSpec, and an fs.writeFile that rejects.  The open may be  *)
(* refused (EACCES), which leaves the file as it was, or the write may     *)
(* fail once the file is open and empty (ENOSPC, EIO).  save() does not    *)
(* catch, so the method rejects with the same error.                       *)
(***************************************************************************)
\* the call has rejected with the error of fs.writeFile; d is the backing file as
\* it was when save() was called
Failed(c, d) == [Done(c, "IOError", <<>>) EXCEPT !.before = d, !.phase = c.phase]

\* fs.writeFile cannot open the backing file
FailOpen(k) ==
  /\ calls[k].pc = "open"
  /\ calls' = [calls EXCEPT ![k] = Failed(calls[k], disk)]
  /\ UNCHANGED <<db, disk, now, nops, last>>

\* fs.writeFile has opened the backing file and cannot write it
FailWrite(k) ==
  /\ calls[k].pc = "write"
  /\ calls' = [calls EXCEPT ![k] = Failed(calls[k], calls[k].before)]
  /\ UNCHANGED <<db, disk, now, nops, last>>

FailNext ==
  \/ StepNext
  \/ \E k \in 1..Len(calls) : FailOpen(k)
  \/ \E k \in 1..Len(calls) : FailWrite(k)

FailSpec == Init /\ [][FailNext]_vars

(***************************************************************************)
(* CallerSpec: Spec, and a caller that writes to what listAll() gave it.   *)
(* { ...this.db } is a new object with the keys of this.db, and each of    *)
(* its values is the record object that this.db holds under the same key.  *)
(***************************************************************************)
PathC == <<"/", "r", "c">>

ResultEdits == { "deleteKey", "addKey", "pushTag", "setCreated" }

\* the mapping the caller holds after one edit of it at path p
EditResult(ret, kind, p) ==
  LET old == ret[IndexOf(ret, p)]
  IN  CASE kind = "deleteKey"  -> DeleteKey(ret, p)
        [] kind = "addKey"     -> PutKey(ret, Rec(PathC, <<TagD>>, 0, 0))
        [] kind = "pushTag"    -> PutKey(ret, [old EXCEPT !.tags = Append(@, TagD)])
        [] kind = "setCreated" -> PutKey(ret, [old EXCEPT !.created = MaxTime + 1])

\* the store after that edit: an edit of the mapping's own keys does not reach
\* it, an edit of a record is an edit of the record object that the store holds
EditShared(recs, kind, p) ==
  IF kind \in { "pushTag", "setCreated" } THEN EditResult(recs, kind, p) ELSE recs

\* the caller edits the mapping that the listAll() call before this step returned
MutateResult(kind, p) ==
  /\ last.op = "listAll"
  /\ HasKey(last.ret, p)
  /\ last' = [last EXCEPT !.op = "mutateResult", !.ret = EditResult(last.ret, kind, p)]
  /\ db' = [db EXCEPT ![last.inst].recs = EditShared(@, kind, p)]
  /\ UNCHANGED <<disk, now, nops, calls>>

CallerNext ==
  \/ Next
  \/ \E kind \in ResultEdits, p \in { PathA, PathB } : MutateResult(kind, p)

CallerSpec == Init /\ [][CallerNext]_vars

(***************************************************************************)
(* TurnSpec: two instances on one backing file, both given every call,     *)
(* each call awaited before the next call of either instance is made.      *)
(***************************************************************************)
TurnOps == { "addTags", "removeTags", "clearTags", "getTags" }

\* instance i runs method op to its end
Turn(i, op, f, tags, exists) ==
  /\ nops < MaxTurns
  /\ LET L == EnsureLoaded(i)
         o == CASE op = "addTags"    -> AddTagsOp(L.recs, f, tags, exists, now, now)
                [] op = "removeTags" -> RemoveTagsOp(L.recs, f, tags, now)
                [] op = "clearTags"  -> ClearTagsOp(L.recs, f)
                [] OTHER             -> GetTagsOp(L.recs, f)
     IN  Finish(i, L, o, CallRec(op, i, f, tags, FALSE, exists, o))
  /\ UNCHANGED now

TurnNext ==
  \E i \in Insts, op \in TurnOps, f \in StepPaths, tags \in StepTagLists \cup { <<>> },
     exists \in BOOLEAN :
    /\ (tags = <<>>) = (op \in { "clearTags", "getTags" })
    /\ exists \/ op = "addTags"
    /\ Turn(i, op, f, tags, exists)

TurnSpec == Init /\ [][TurnNext]_vars

(***************************************************************************)
(* CliSpec: runs of bin/filetag.js, one after the other.  Each run is a    *)
(* process of its own: it constructs a FileTag, which loads the backing    *)
(* file in the one method the command calls, and exits.  An argument is a  *)
(* string: a command word or an option is modelled as a sequence of one    *)
(* word, a tag or a path as in the methods.                                *)
(***************************************************************************)
Word(w) == <<w>>

AllFlag == Word("--all")

DbFlag == Word("--db")

\* the default backing file of the constructor, '.filetag.json'
DefaultDb == Word(".filetag.json")

\* another backing file, which no run has written
OtherDb == Word("other.json")

\* the command lines that are run
ArgLists ==
  { <<>>, <<Word("help")>>, <<Word("bogus")>>, <<DbFlag, DefaultDb>>,
    <<Word("add"), Word("a")>>, <<Word("add"), Word("a"), TagW>>,
    <<Word("add"), PathB, TagD, TagW>>,
    <<Word("remove"), Word("a")>>, <<Word("remove"), Word("a"), TagW>>,
    <<Word("list")>>, <<Word("list"), Word("a")>>,
    <<Word("search")>>, <<Word("search"), AllFlag>>, <<Word("search"), TagW>>,
    <<Word("search"), TagD, TagW, AllFlag>>, <<Word("search"), AllFlag, TagD>>,
    <<Word("search"), DbFlag, DefaultDb>>,
    <<DbFlag, DefaultDb, Word("search"), TagW>>,
    <<DbFlag, OtherDb, Word("search"), AllFlag>>,
    <<Word("tags")>>, <<Word("all")>>,
    <<Word("clear")>>, <<Word("clear"), PathB>> }

\* args.indexOf(x), counted from 1; 0 when x is not an argument
ArgIndex(args, x) ==
  IF \E k \in 1..Len(args) : args[k] = x
  THEN CHOOSE k \in 1..Len(args) : args[k] = x /\ \A j \in 1..(k - 1) : args[j] # x
  ELSE 0

\* the --db option: the path it names and the arguments without the option
ParseDb(args) ==
  LET k == ArgIndex(args, DbFlag)
  IN  IF k # 0 /\ k + 1 <= Len(args)
      THEN [dbPath |-> args[k + 1],
            args   |-> SubSeq(args, 1, k - 1) \o SubSeq(args, k + 2, Len(args))]
      ELSE [dbPath |-> DefaultDb, args |-> args]

\* args.slice(k) with k counted from 0
Slice(args, k) == SubSeq(args, k + 1, Len(args))

\* how a run ends: its exit code, the method it called with its arguments, what
\* the method returned (which the run prints), and the backing file it leaves
CliRun(exit, method, f, tags, all, ret, d) ==
  [exit |-> exit, method |-> method, path |-> f, tags |-> tags, all |-> all,
   ret |-> ret, disk |-> d]

\* a run that calls no method: help, a usage error or an unknown command
CliNoCall(exit, d) == CliRun(exit, "none", <<>>, <<>>, FALSE, <<>>, d)

\* a run that has called a method on the store L that init() built: a rejection
\* is caught by main, which prints the message and exits with 1
CliCall(method, f, tags, all, L, o) ==
  CliRun(IF o.outcome = "ok" THEN 0 ELSE 1, method, f, tags, all, o.ret,
         IF o.save THEN Save(o.recs) ELSE L.disk)

\* case 'search': args.length < 2
SearchTooShort(args) == Len(args) < 2

\* main() on the backing file d; exists is what fs.access finds, t the clock
CliMain(argv, d, exists, t) ==
  LET p       == ParseDb(argv)
      args    == p.args
      command == args[1]
      L       == InitOf(d)
  IN  IF argv = <<>> \/ argv[1] \in { Word("help"), Word("--help"), Word("-h") }
        THEN CliNoCall(0, d)
      ELSE IF args = <<>> THEN CliNoCall(1, d)
      ELSE IF command = Word("add") THEN
        IF Len(args) < 3 THEN CliNoCall(1, d)
        ELSE CliCall("addTags", args[2], Slice(args, 2), FALSE, L,
                     AddTagsOp(L.recs, args[2], Slice(args, 2), exists, t, t))
      ELSE IF command = Word("remove") THEN
        IF Len(args) < 3 THEN CliNoCall(1, d)
        ELSE CliCall("removeTags", args[2], Slice(args, 2), FALSE, L,
                     RemoveTagsOp(L.recs, args[2], Slice(args, 2), t))
      ELSE IF command = Word("list") THEN
        IF Len(args) < 2 THEN CliNoCall(1, d)
        ELSE CliCall("getTags", args[2], <<>>, FALSE, L, GetTagsOp(L.recs, args[2]))
      ELSE IF command = Word("search") THEN
        IF SearchTooShort(args) THEN CliNoCall(1, d)
        ELSE LET matchAll == \E k \in 1..Len(args) : args[k] = AllFlag
                 tags     == SelectSeq(Slice(args, 1), LAMBDA a : a # AllFlag)
             IN  CliCall("findByTags", <<>>, tags, matchAll, L,
                         FindByTagsOp(L.recs, tags, matchAll))
      ELSE IF command = Word("tags") THEN
        CliCall("listAllTags", <<>>, <<>>, FALSE, L, ListAllTagsOp(L.recs))
      ELSE IF command = Word("all") THEN
        CliCall("listAll", <<>>, <<>>, FALSE, L, ListAllOp(L.recs))
      ELSE IF command = Word("clear") THEN
        IF Len(args) < 2 THEN CliNoCall(1, d)
        ELSE CliCall("clearTags", args[2], <<>>, FALSE, L, ClearTagsOp(L.recs, args[2]))
      ELSE CliNoCall(1, d)

\* one run of the command line argv; a run with --db on another file finds that
\* file missing and leaves the backing file alone
Cli(argv, exists) ==
  /\ nops < MaxOps
  /\ LET own == ParseDb(argv).dbPath = DefaultDb
         r   == CliMain(argv, IF own THEN disk ELSE Absent, exists, now)
     IN  /\ disk' = IF own THEN r.disk ELSE disk
         /\ last' = [op |-> "cli", argv |-> argv, exit |-> r.exit,
                     method |-> r.method, path |-> r.path, tags |-> r.tags,
                     all |-> r.all, ret |-> r.ret]
  /\ nops' = nops + 1
  /\ UNCHANGED <<db, now, calls>>

CliNext == \E argv \in ArgLists, exists \in BOOLEAN : Cli(argv, exists)

CliSpec == Init /\ [][CliNext]_vars

(***************************************************************************)
(* What the README says of tags: "trimmed and converted to lowercase".     *)
(***************************************************************************)
Lower(c) == IF c = "W" THEN "w" ELSE c

RECURSIVE TrimStart(_)
TrimStart(t) == IF t # <<>> /\ Head(t) = " " THEN TrimStart(Tail(t)) ELSE t

RECURSIVE TrimEnd(_)
TrimEnd(t) ==
  IF t # <<>> /\ t[Len(t)] = " " THEN TrimEnd(SubSeq(t, 1, Len(t) - 1)) ELSE t

Normalize(t) == LET u == TrimEnd(TrimStart(t)) IN [k \in 1..Len(u) |-> Lower(u[k])]

NoRepeat(s) == \A j, k \in 1..Len(s) : s[j] = s[k] => j = k

(***************************************************************************)
(* Properties.  In an action formula the unprimed variables are the state  *)
(* before a call and last' is the call that was made.                      *)
(***************************************************************************)
\* a call of method op is made in this step
Called(op) == nops' = nops + 1 /\ last'.op = op

\* can JSON.parse read the backing file
Readable(d) == d.exists /\ Valid(d.text)

\* the store that the instance of the call works on: the one it holds, or the one
\* its load guard builds
StoreBefore ==
  IF db[last'.inst].loaded THEN db[last'.inst].recs
  ELSE IF Readable(disk) THEN Parse(disk.text) ELSE <<>>

StoreAfter == db'[last'.inst].recs

\* C1: while one save() over a complete store is under way, and no other call
\* runs, the backing file holds the complete store of before the save or the
\* complete store of after it, never an empty or cut document
C1_SaveIsAtomic ==
  \A k \in 1..Len(calls) :
    (Len(calls) = 1 /\ calls[k].pc \in { "write", "written" }
       /\ Readable(calls[k].before))
      => (disk = calls[k].before \/ disk = File(calls[k].data))

\* C2: the first call of an instance on a backing file that exists and does not
\* parse ends with a StoreCorruptError, loads nothing and leaves the file as it was
C2_CorruptStoreIsFatal ==
  [][ (nops' = nops + 1 /\ ~db[last'.inst].loaded /\ disk.exists /\ ~Valid(disk.text))
        => /\ last'.outcome = "StoreCorruptError"
           /\ disk' = disk
           /\ ~db'[last'.inst].loaded ]_vars

\* C3: addTags on a path that is not an existing file fails with "file not found",
\* the backing file is as before the call, and memory holds no record of the path
C3_MissingFileLeavesBackingFile ==
  [][ (Called("addTags") /\ ~last'.exists)
        => /\ last'.outcome = "FileNotFound"
           /\ disk' = disk
           /\ ~HasKey(StoreAfter, Resolve(last'.path)) ]_vars

\* C3, amended: addTags on a path that is not an existing file fails with "file
\* not found" and the add itself changes no record and writes nothing: the store
\* in memory and the backing file are what the load guard of the call left, and
\* are as before the call when the instance had already loaded
C3_MissingFileAddsNothing ==
  [][ (Called("addTags") /\ ~last'.exists)
        => /\ last'.outcome = "FileNotFound"
           /\ last'.ret = <<>>
           /\ StoreAfter = StoreBefore
           /\ disk' = IF db[last'.inst].loaded THEN disk ELSE InitOf(disk).disk
           /\ Readable(disk) => disk' = disk ]_vars

\* C3, witness: an add on a missing file has failed in an instance that holds records
C3_Witness ==
  /\ last.op = "addTags" /\ ~last.exists /\ last.outcome = "FileNotFound"
  /\ nops = 2
  /\ HasKey(db[last.inst].recs, Resolve(last.path))

AllRecs(i) == Range(db[i].recs)

\* C4: every stored tag is its own normalization and no record holds two tags
\* that are equal after normalization
C4_StoredTagsNormalized ==
  \A i \in Insts : \A r \in AllRecs(i) :
    /\ \A k \in 1..Len(r.tags) : r.tags[k] = Normalize(r.tags[k])
    /\ NoRepeat([k \in 1..Len(r.tags) |-> Normalize(r.tags[k])])

\* the tag set of path p in a store
TagSet(recs, p) == Range(TagsAt(recs, p))

\* C5: findByTags with a non-empty query returns, each once and in the order of
\* the records, exactly the paths whose tag set meets the query (any) or holds
\* the whole query (all)
C5_FindByTagsSelects ==
  (last.op = "findByTags" /\ last.tags # <<>>) =>
    LET recs == db[last.inst].recs
        Q    == Range(last.tags)
        Qualifies(p) == IF last.all THEN Q \subseteq TagSet(recs, p)
                        ELSE Q \cap TagSet(recs, p) # {}
    IN  /\ last.outcome = "ok"
        /\ last.ret = SelectSeq(Keys(recs), Qualifies)

\* C5, witness: an "all" query of two tags has returned some of the tracked paths
C5_Witness ==
  /\ last.op = "findByTags" /\ last.all /\ Cardinality(Range(last.tags)) = 2
  /\ Len(last.ret) = 1
  /\ Len(db[last.inst].recs) = 2

\* C6: with an empty query, findByTags returns every tracked path when all tags
\* must match and no path when any tag may match
C6_EmptyQuery ==
  (last.op = "findByTags" /\ last.tags = <<>>) =>
    last.ret = IF last.all THEN Keys(db[last.inst].recs) ELSE <<>>

\* C6, witness: an empty "all" query has returned two paths, one with no tag
C6_Witness ==
  /\ last.op = "findByTags" /\ last.tags = <<>> /\ last.all
  /\ Len(last.ret) = 2
  /\ \E p \in Range(last.ret) : TagsAt(db[last.inst].recs, p) = <<>>

\* list added holds the tags of list T that are not in the set present, each
\* once, in the order in which T first names them
IsFirstSeen(added, T, present) ==
  /\ Range(added) = Range(T) \ present
  /\ NoRepeat(added)
  /\ \A j, k \in 1..Len(added) :
       j < k => \E m \in 1..Len(T) : T[m] = added[j] /\ \A n \in 1..m : T[n] # added[k]

\* C7: addTags on an existing file returns and stores the tags the path had, in
\* their order, followed by the new tags of the list in the order they are first
\* seen, no tag twice; the same call made again returns and stores the same list
C7_AddTagsAppendsNew ==
  [][ (Called("addTags") /\ last'.exists)
        => LET abs == Resolve(last'.path)
               had == TagsAt(StoreBefore, abs)
               ret == last'.ret
           IN  /\ last'.outcome = "ok"
               /\ Len(ret) >= Len(had)
               /\ SubSeq(ret, 1, Len(had)) = had
               /\ IsFirstSeen(SubSeq(ret, Len(had) + 1, Len(ret)), last'.tags, Range(had))
               /\ NoRepeat(ret)
               /\ TagsAt(StoreAfter, abs) = ret
               /\ (/\ last.op = "addTags" /\ last.outcome = "ok"
                   /\ last.inst = last'.inst
                   /\ Resolve(last.path) = abs /\ last.tags = last'.tags)
                    => ret = last.ret ]_vars

\* C7, witness: a list that names "d" twice was added to a record that held "w"
C7_Witness ==
  /\ last.op = "addTags" /\ last.outcome = "ok"
  /\ last.tags = <<TagD, TagW, TagD>>
  /\ last.ret = <<TagW, TagD>>

\* C8: when only one instance has made calls, the backing file is the whole store
\* of that instance: a fresh instance on the same file returns the same listAll
\* and the same getTags for every path
C8_RoundTrip ==
  \A i, j \in Insts :
    (i # j /\ db[i].loaded /\ ~db[j].loaded) =>
      LET fresh == EnsureLoaded(j)
      IN  /\ Readable(disk)
          /\ fresh.disk = disk
          /\ ListAllOp(fresh.recs).ret = ListAllOp(db[i].recs).ret
          /\ \A f \in PathArgs : GetTagsOp(fresh.recs, f).ret = GetTagsOp(db[i].recs, f).ret

\* C8, witness: instance A has added tags to a second path and B has not loaded
C8_Witness ==
  /\ last.op = "addTags" /\ last.inst = "A" /\ last.saved
  /\ ~db["B"].loaded
  /\ Len(db["A"].recs) = 2
  /\ last.ret # <<>>

\* C9: removeTags that removes the last tag of a record keeps the record, in
\* memory and in the backing file, with no tag, its created time and the current
\* time as modified; a key leaves the store only by clearTags of that path
C9_RemoveKeepsRecord ==
  [][ (nops' = nops + 1) =>
        LET abs    == Resolve(last'.path)
            before == StoreBefore
            after  == StoreAfter
            old    == before[IndexOf(before, abs)]
            kept   == Rec(abs, <<>>, old.created, now)
        IN  /\ (/\ last'.op = "removeTags" /\ HasKey(before, abs)
                /\ Range(old.tags) \subseteq Range(last'.tags))
                 => /\ HasKey(after, abs)
                    /\ after[IndexOf(after, abs)] = kept
                    /\ Readable(disk')
                    /\ kept \in Range(Parse(disk'.text))
            /\ \A p \in Range(Keys(before)) :
                 ~HasKey(after, p) => (last'.op = "clearTags" /\ p = abs) ]_vars

\* C9, witness: a removal has left a record without tags whose modified time is
\* later than its created time
C9_Witness ==
  /\ last.op = "removeTags" /\ last.saved /\ last.ret = <<>>
  /\ \E r \in AllRecs(last.inst) :
       r.path = Resolve(last.path) /\ r.tags = <<>> /\ r.created < r.modified

\* C10: clearTags never fails; after it the path is a key neither in memory nor in
\* the backing file and getTags returns no tag; every other record, and every
\* record when the path was untracked, is as before
C10_ClearDeletesRecord ==
  [][ Called("clearTags") =>
        LET abs == Resolve(last'.path)
        IN  /\ last'.outcome = "ok"
            /\ ~HasKey(StoreAfter, abs)
            /\ Readable(disk')
            /\ ~HasKey(Parse(disk'.text), abs)
            /\ Parse(disk'.text) = StoreAfter
            /\ GetTagsOp(StoreAfter, last'.path).ret = <<>>
            /\ StoreAfter = SelectSeq(StoreBefore, LAMBDA r : r.path # abs)
            /\ ~HasKey(StoreBefore, abs) => StoreAfter = StoreBefore ]_vars

\* C10, witness: one instance has cleared a path that the other instance, loaded
\* from the same file, still holds
C10_Witness ==
  /\ last.op = "clearTags"
  /\ \E j \in Insts :
       /\ j # last.inst
       /\ db[j].recs = SeedStore
       /\ db[last.inst].recs = SelectSeq(SeedStore, LAMBDA r : r.path # Resolve(last.path))
       /\ Len(db[last.inst].recs) = 1

\* C11: whatever the caller does to the mapping that listAll() returned, the store
\* of the instance is as before: getTags, findByTags and listAll answer the same
\* and the next save writes the same text
C11_ListAllIsDefensiveCopy ==
  [][ (last.op = "listAll" /\ last'.op = "mutateResult") =>
        LET before == db[last.inst].recs
            after  == db'[last.inst].recs
        IN  /\ \A f \in PathArgs : GetTagsOp(after, f).ret = GetTagsOp(before, f).ret
            /\ \A tags \in TagLists, all \in BOOLEAN :
                 FindByTagsOp(after, tags, all).ret = FindByTagsOp(before, tags, all).ret
            /\ ListAllOp(after).ret = ListAllOp(before).ret
            /\ Serialize(after) = Serialize(before) ]_vars

Mutating == { "addTags", "removeTags", "clearTags" }

\* every call that was started has settled, and none was cut by a crash
Settled == \A k \in 1..Len(calls) : calls[k].pc = "done" /\ calls[k].outcome # "crashed"

\* C12: when two instances have each run one mutating call on the same backing
\* file, their steps interleaved in any way, no call has ended with an error other
\* than "file not found", and the backing file is the complete serialization of
\* the store of one of the two instances
C12_RacesNeverCorrupt ==
  (/\ Len(calls) = 2 /\ calls[1].inst # calls[2].inst /\ Settled
   /\ \A k \in 1..2 : calls[k].op \in Mutating)
    => /\ \A k \in 1..2 : calls[k].outcome \in { "ok", "FileNotFound" }
       /\ Readable(disk)
       /\ \E i \in Insts : db[i].loaded /\ disk = Save(db[i].recs)

\* list sub is list full with the members of set gone dropped, the others in
\* their order
IsFiltered(sub, full, gone) ==
  \E keep \in SUBSET (1..Len(full)) :
    /\ \A k \in 1..Len(full) : (k \in keep) = (full[k] \notin gone)
    /\ Len(sub) = Cardinality(keep)
    /\ \A k \in keep : sub[Cardinality({ j \in keep : j <= k })] = full[k]

\* C13: removeTags on a tracked path returns and stores the tags the path had
\* without those of the list, the others in their order; when the path has none
\* of the tags of the list, the tag list is unchanged; every other record is as
\* before
C13_RemoveTagsFilters ==
  [][ (Called("removeTags") /\ HasKey(StoreBefore, Resolve(last'.path))) =>
        LET abs == Resolve(last'.path)
            had == TagsAt(StoreBefore, abs)
        IN  /\ last'.outcome = "ok"
            /\ IsFiltered(last'.ret, had, Range(last'.tags))
            /\ TagsAt(StoreAfter, abs) = last'.ret
            /\ (Range(last'.tags) \cap Range(had) = {}) => last'.ret = had
            /\ Keys(StoreAfter) = Keys(StoreBefore)
            /\ \A k \in 1..Len(StoreBefore) :
                 StoreBefore[k].path # abs => StoreAfter[k] = StoreBefore[k] ]_vars

\* C13, witness: a removal has taken the first of two tags of a record and left
\* the second, another record being tracked
C13_Witness ==
  /\ last.op = "removeTags" /\ last.saved
  /\ last.tags = <<TagW>>
  /\ last.ret = <<TagD>>
  /\ Len(db[last.inst].recs) = 2

\* the records that a load finds in the backing file
RecordsIn(d) == IF Readable(d) THEN Parse(d.text) ELSE <<>>

\* C14: removeTags on a path without a record returns the empty list and no
\* error; it does not look whether the file exists; it creates no record for the
\* path and changes no record, in memory or in the backing file, which it does
\* not write
C14_RemoveUntrackedIsNoOp ==
  [][ (Called("removeTags") /\ ~HasKey(StoreBefore, Resolve(last'.path))) =>
        /\ last'.outcome = "ok"
        /\ last'.ret = <<>>
        /\ ~last'.saved
        /\ StoreAfter = StoreBefore
        /\ ~HasKey(StoreAfter, Resolve(last'.path))
        /\ RecordsIn(disk') = RecordsIn(disk)
        /\ ~HasKey(RecordsIn(disk'), Resolve(last'.path))
        /\ Readable(disk) => disk' = disk ]_vars

\* C14, witness: tags were removed from an untracked path while another path
\* holds tags
C14_Witness ==
  /\ last.op = "removeTags" /\ last.tags # <<>> /\ last.ret = <<>> /\ ~last.saved
  /\ ~HasKey(db[last.inst].recs, Resolve(last.path))
  /\ \E r \in AllRecs(last.inst) : r.tags # <<>>

\* string a comes before string b in lexicographic order of code units: at the
\* first place where they differ a has the smaller unit, or a ends there
LexBefore(a, b) ==
  \E k \in 1..(Len(b)) :
    /\ \A j \in 1..(k - 1) : j <= Len(a) /\ a[j] = b[j]
    /\ k > Len(a) \/ Code(a[k]) < Code(b[k])

\* C15: listAllTags returns the tags that some record holds, each once, in
\* ascending lexicographic order, whatever the order of the records and of their
\* tags; it returns the empty list when no record holds a tag
C15_ListAllTagsSortedUnion ==
  (last.op = "listAllTags") =>
    LET recs == db[last.inst].recs
        ret  == last.ret
    IN  /\ last.outcome = "ok"
        /\ Range(ret) = UNION { Range(r.tags) : r \in Range(recs) }
        /\ NoRepeat(ret)
        /\ \A j, k \in 1..Len(ret) : j < k => LexBefore(ret[j], ret[k])
        /\ (\A r \in Range(recs) : r.tags = <<>>) => ret = <<>>

\* C15, witness: three tags held by two records in another order than the
\* lexicographic one have been listed
C15_Witness ==
  /\ last.op = "listAllTags"
  /\ last.ret = <<TagSpacedW, TagD, TagW>>
  /\ Len(db[last.inst].recs) = 2
  /\ db[last.inst].recs[1].tags = <<TagW, TagD>>

\* C16: removeTags and findByTags normalize their tag arguments before they
\* compare them with stored tags: when a record holds a normalized tag t and the
\* call names a spelling v of t, removeTags takes t from the record and
\* findByTags([v]) returns the path of the record
C16_QueryTagsNormalized ==
  [][ (nops' = nops + 1) =>
        LET abs     == Resolve(last'.path)
            named   == { Normalize(last'.tags[k]) : k \in 1..Len(last'.tags) }
            Held(r) == { t \in Range(r.tags) : t = Normalize(t) }
        IN  /\ (last'.op = "removeTags" /\ HasKey(StoreBefore, abs)) =>
                 \A t \in Held(StoreBefore[IndexOf(StoreBefore, abs)]) :
                   t \in named => t \notin Range(TagsAt(StoreAfter, abs))
            /\ (last'.op = "findByTags" /\ Len(last'.tags) = 1) =>
                 \A r \in Range(StoreBefore) :
                   (Held(r) \cap named # {}) => r.path \in Range(last'.ret) ]_vars

\* C17: the created time of a record is the time of the addTags call that made
\* the record, and no later addTags or removeTags changes it; every addTags and
\* removeTags on a record sets its modified time to the time of the call, also
\* when the tags stay as they are, and leaves the times of the other records; so
\* created <= modified in every record
C17_Timestamps ==
  [][ (nops' = nops + 1) =>
        LET abs    == Resolve(last'.path)
            before == StoreBefore
            after  == StoreAfter
            stamps == /\ last'.op \in { "addTags", "removeTags" }
                      /\ last'.outcome = "ok"
                      /\ HasKey(after, abs)
            new    == after[IndexOf(after, abs)]
            old    == before[IndexOf(before, abs)]
        IN  /\ stamps => /\ new.modified = now'
                         /\ IF HasKey(before, abs)
                            THEN new.created = old.created
                            ELSE last'.op = "addTags" /\ new.created = now
            /\ \A r \in Range(before) :
                 (r.path # abs \/ ~stamps) =>
                   (r \in Range(after) \/ (last'.op = "clearTags" /\ r.path = abs))
            /\ \A r \in Range(after) : r.created <= r.modified /\ r.modified <= now' ]_vars

\* C17, witness: an add that named only a tag the record already had has moved
\* the modified time of the record past its created time
C17_Witness ==
  /\ last.op = "addTags" /\ last.outcome = "ok" /\ last.tags = <<TagW>>
  /\ \E r \in AllRecs(last.inst) :
       /\ r.path = Resolve(last.path)
       /\ r.tags = <<TagW, TagD>>
       /\ r.created = 0 /\ r.modified = 1

\* C18: the first call of an instance that finds no backing file, whatever the
\* method, starts from an empty store and writes it: after the call the backing
\* file exists, parses, and holds the whole store of the instance, which is the
\* empty store unless the call itself added a record
C18_AbsentFileIsCreated ==
  [][ (nops' = nops + 1 /\ ~db[last'.inst].loaded /\ ~disk.exists) =>
        /\ StoreBefore = <<>>
        /\ db'[last'.inst].loaded
        /\ Readable(disk')
        /\ Parse(disk'.text) = StoreAfter
        /\ disk' = Save(StoreAfter)
        /\ (last'.op # "addTags" \/ last'.outcome # "ok") => disk' = Save(<<>>) ]_vars

\* C18, witness: a query was the first call of an instance, there was no backing
\* file, and now there is one that holds the empty store
C18_Witness ==
  /\ last.op = "getTags" /\ last.load = "absent" /\ nops = 1
  /\ disk = Save(<<>>)
  /\ db[last.inst] = [loaded |-> TRUE, recs |-> <<>>]

\* C19: when the only call made so far is a mutating call whose save failed, the
\* backing file is the complete store of before the call and the store in memory
\* is that store too, so that no later save writes the change of the failed call
C19_FailedSavePersistsNothing ==
  (/\ Len(calls) = 1
   /\ calls[1].op \in Mutating /\ calls[1].outcome = "IOError"
   /\ calls[1].phase = "body" /\ Readable(calls[1].before))
    => /\ disk = calls[1].before
       /\ db[calls[1].inst].recs = Parse(calls[1].before.text)

\* C20: a completed addTags call leaves no record, in memory or in the backing
\* file, for a path that has not received a tag: a path that had no record before
\* the call and has one after it holds at least one tag
C20_NoRecordWithoutTag ==
  [][ (Called("addTags") /\ last'.outcome = "ok" /\ last'.load # "unparsable") =>
        \A p \in { Resolve(f) : f \in PathArgs } :
          ~HasKey(StoreBefore, p) =>
            /\ HasKey(StoreAfter, p) => TagsAt(StoreAfter, p) # <<>>
            /\ HasKey(RecordsIn(disk'), p) => TagsAt(RecordsIn(disk'), p) # <<>> ]_vars

\* the arguments of a search run that are tags: those after the command word,
\* the --all option and the --db option with its path left out
SearchTags(argv) == SelectSeq(Slice(ParseDb(argv).args, 1), LAMBDA a : a # AllFlag)

IsSearch(argv) == ParseDb(argv).args # <<>> /\ ParseDb(argv).args[1] = Word("search")

\* C21: a run of search whose arguments name no tag exits with code 1, calls no
\* method and lists no file
C21_SearchNeedsATag ==
  (last.op = "cli" /\ IsSearch(last.argv) /\ SearchTags(last.argv) = <<>>)
    => /\ last.exit = 1
       /\ last.method = "none"
       /\ last.ret = <<>>

\* C22: when the calls of two instances are made one after the other, no call
\* takes out of the backing file, or turns back, the record of a path other than
\* its own: what either instance has saved stays in the file until a call on
\* that path changes it
C22_SequentialUpdatesKept ==
  [][ (nops' = nops + 1 /\ Readable(disk)) =>
        \A r \in Range(RecordsIn(disk)) :
          r.path # Resolve(last'.path) => r \in Range(RecordsIn(disk')) ]_vars

\* C23: when two addTags calls on existing files were made on one instance, the
\* second perhaps before the first had settled, both have ended without error
\* and returned a tag list that holds their tags, and the store in memory and the
\* backing file both hold the tags of both calls
C23_UnawaitedCallsSerialize ==
  (/\ Len(calls) = 2 /\ calls[1].inst = calls[2].inst /\ Settled
   /\ \A k \in 1..2 : calls[k].op = "addTags" /\ calls[k].outcome # "FileNotFound")
    => LET recs == db[calls[1].inst].recs
       IN  /\ \A k \in 1..2 :
                /\ calls[k].outcome = "ok"
                /\ Range(calls[k].tags) \subseteq Range(calls[k].ret)
                /\ Range(calls[k].tags) \subseteq TagSet(recs, Resolve(calls[k].path))
           /\ Readable(disk)
           /\ Parse(disk.text) = recs

Queries == { "getTags", "findByTags", "listAllTags", "listAll" }

====
